---- MODULE Spec2Model ----
(***************************************************************************)
(* Model of the warehouse simulation engine of docs/sim.js: the seeded     *)
(* Mulberry32 random source, the Order and Employee objects, and           *)
(* WarehouseSimulation (constructor, step, _metrics).                      *)
(***************************************************************************)
EXTENDS Integers, Sequences, FiniteSets, TLC

(***************************************************************************)
(* 32-bit words.  TLC integers are 32-bit signed, so a JavaScript uint32   *)
(* is kept as a pair <<hi, lo>> of 16-bit limbs.                           *)
(***************************************************************************)
Limb == 65536

RECURSIVE Xor(_, _)
\* a ^ b on non-negative integers, bit by bit
Xor(a, b) ==
  IF a = 0 THEN b
  ELSE IF b = 0 THEN a
  ELSE (((a % 2) + (b % 2)) % 2) + 2 * Xor(a \div 2, b \div 2)

RECURSIVE Or(_, _)
\* a | b on non-negative integers, bit by bit
Or(a, b) ==
  IF a = 0 THEN b
  ELSE IF b = 0 THEN a
  ELSE (IF a % 2 = 1 \/ b % 2 = 1 THEN 1 ELSE 0) + 2 * Or(a \div 2, b \div 2)

\* seed >>> 0 : ToUint32 of an integer (two's complement for negatives)
ToUint32(n) == << (n \div Limb) % Limb, n % Limb >>

Xor32(x, y) == << Xor(x[1], y[1]), Xor(x[2], y[2]) >>

\* x | c for a constant c < 2^16 (only the low limb changes)
OrLow(x, c) == << x[1], Or(x[2], c) >>

\* (x + y) mod 2^32
Add32(x, y) ==
  LET lo == x[2] + y[2]
  IN  << (x[1] + y[1] + (lo \div Limb)) % Limb, lo % Limb >>

\* x >>> k for 0 < k < 16
Shr32(x, k) ==
  LET p == 2 ^ k
      q == 2 ^ (16 - k)
  IN  << x[1] \div p, ((x[1] % p) * q) + (x[2] \div p) >>

\* (a * b) mod 2^16 for 16-bit a, b, without leaving 32-bit integers
MulLow16(a, b) == (((a % 256) * b) + ((((a \div 256) * b) % 256) * 256)) % Limb

\* Math.imul(x, y): the low 32 bits of the product
Imul32(x, y) ==
  LET p0    == (x[2] % 256) * y[2]            \* < 2^24
      p1    == (x[2] \div 256) * y[2]         \* < 2^24, weight 2^8
      loSum == p0 + ((p1 % 256) * 256)
      carry == (p1 \div 256) + (loSum \div Limb) \* high half of x.lo * y.lo
      cross == MulLow16(x[1], y[2]) + MulLow16(x[2], y[1])
  IN  << (carry + cross) % Limb, loSum % Limb >>

\* 0x6D2B79F5
Mulberry32Increment == << 27947, 31221 >>

\* the closure state after one call: t += 0x6D2B79F5 (kept modulo 2^32,
\* every later use of t goes through a 32-bit integer conversion)
RngAdvance(t) == Add32(t, Mulberry32Increment)

\* the uint32 numerator of the value one call returns, from the advanced t
RngOutput(t) ==
  LET r1 == Imul32(Xor32(t, Shr32(t, 15)), OrLow(t, 1))
      r2 == Xor32(r1, Add32(r1, Imul32(Xor32(r1, Shr32(r1, 7)), OrLow(r1, 61))))
  IN  Xor32(r2, Shr32(r2, 14))

(***************************************************************************)
(* Bounds of the model and the constructor arguments it is built with.     *)
(***************************************************************************)
MaxTick == 14
MaxEmployees == 2
MaxSeed == 4

\* `null`: no order held, no completion tick yet
Null == -1

\* 24 * 60, the ticks of one day
MinutesPerDay == 1440

\* the number of the first order id
FirstOrderNum == 1000

DefaultSeed == 42
DefaultSlaMinutes == 240

Seeds == (0 .. MaxSeed) \cup {DefaultSeed}
DefaultOrdersPerDay == 500
OrdersPerDayChoices == {-720, 0, DefaultOrdersPerDay, 720, 1440, 1800, 3600}
MinutesPerOrderChoices == {0, 4, 10}
SlaChoices == {4, 10, DefaultSlaMinutes}

\* the options object handed to the constructor
Configs ==
  [ numEmployees    : 0 .. MaxEmployees,
    ordersPerDay    : OrdersPerDayChoices,
    minutesPerOrder : MinutesPerOrderChoices,
    seed            : Seeds,
    slaMinutes      : SlaChoices ]

VARIABLES
  sims,        \* the WarehouseSimulation instances that exist, in creation order
  closures,    \* the variable t of each closure makeRng returned, in creation order
  config,      \* the options the instances were constructed with
  assignedAt   \* history: per instance and Order, the tick of the step that moved it to PICK

\* the page that drives an instance; its global `sim` is sims[1], or null
\* when sims is empty
VARIABLES
  timerId,     \* the global timerId: the handle setInterval returned, or null
  targetTicks, \* the global targetTicks
  timers,      \* the browser's active interval timers, each with what its callback captured
  lastHandle   \* the last handle setInterval returned

page == << timerId, targetTicks, timers, lastHandle >>

vars == << sims, closures, config, assignedAt, timerId, targetTicks, timers, lastHandle >>

Max(a, b) == IF a >= b THEN a ELSE b

Min(a, b) == IF a < b THEN a ELSE b

\* Math.round(num / den) for num >= 0, den > 0: halves round up
MathRound(num, den) == (2 * num + den) \div (2 * den)

\* the globals as the script declares them; no timer was ever set
PageLoaded ==
  /\ timerId = Null
  /\ targetTicks = 0
  /\ timers = {}
  /\ lastHandle = 0

(***************************************************************************)
(* makeRng, Order, Employee                                                *)
(***************************************************************************)
\* makeRng with t declared once at module level: every closure shares it
makeRngSharedState(cl, seed) ==
  IF Len(cl) = 0
  THEN [ closures |-> << ToUint32(seed) >>, ref |-> 1 ]
  ELSE [ closures |-> [cl EXCEPT ![1] = ToUint32(seed)], ref |-> 1 ]

\* makeRng(seed): a new closure whose own t starts at seed >>> 0
makeRng(cl, seed) ==
  [ closures |-> Append(cl, ToUint32(seed)), ref |-> Len(cl) + 1 ]

\* one call of the closure `ref`: t advances, the draw is a function of t
rngCall(cl, ref) ==
  LET t == RngAdvance(cl[ref])
  IN  [ closures |-> [cl EXCEPT ![ref] = t], value |-> RngOutput(t) ]

\* new Order(id, createdTick); the id "A<n>" is kept as its number n
Order(id, createdTick) ==
  [ id |-> id, createdTick |-> createdTick, stage |-> "NEW", completeTick |-> Null ]

\* new Employee(id)
Employee(id) == [ id |-> id, currentOrder |-> Null, timeRemaining |-> 0 ]

\* get idle()
idle(emp) == emp.currentOrder = Null

(***************************************************************************)
(* WarehouseSimulation: constructor                                        *)
(***************************************************************************)
\* durations derived from minutesPerOrder: PICK 50%, STAGE 30%, SHIP 20%
\* (an integer number of minutes, so mpo * 0.5 is mpo * 5 / 10, and so on)
Durations(minutesPerOrder) ==
  LET mpo == Max(1, minutesPerOrder)
  IN  [ PICK  |-> Max(1, MathRound(mpo * 5, 10)),
        STAGE |-> Max(1, MathRound(mpo * 3, 10)),
        SHIP  |-> Max(1, MathRound(mpo * 2, 10)) ]

\* the constructor clamping numEmployees to at least 1, as readParams does
WarehouseSimulationMinOne(cl, cfg) ==
  LET r == makeRng(cl, cfg.seed)
  IN  [ closures |-> r.closures,
        sim |->
          [ rng             |-> r.ref,
            employees       |-> [i \in 1 .. Max(1, cfg.numEmployees) |-> Employee(i - 1)],
            orders          |-> << >>,
            newOrders       |-> << >>,
            completedOrders |-> << >>,
            tick            |-> 0,
            nextOrderNum    |-> FirstOrderNum,
            slaMinutes      |-> cfg.slaMinutes,
            ordersPerDay    |-> Max(0, cfg.ordersPerDay),
            durations       |-> Durations(cfg.minutesPerOrder),
            createdByDay    |-> << >>,
            completedByDay  |-> << >>,
            onTimeByDay     |-> << >> ] ]

\* new WarehouseSimulation(cfg), given the closures that exist; `orders` is the
\* store of the Order objects this instance created, the arrays hold indices
\* into it (object references)
WarehouseSimulation(cl, cfg) ==
  LET r == makeRng(cl, cfg.seed)
  IN  [ closures |-> r.closures,
        sim |->
          [ rng             |-> r.ref,
            employees       |-> [i \in 1 .. cfg.numEmployees |-> Employee(i - 1)],
            orders          |-> << >>,
            newOrders       |-> << >>,
            completedOrders |-> << >>,
            tick            |-> 0,
            nextOrderNum    |-> FirstOrderNum,
            slaMinutes      |-> cfg.slaMinutes,
            ordersPerDay    |-> Max(0, cfg.ordersPerDay),
            durations       |-> Durations(cfg.minutesPerOrder),
            createdByDay    |-> << >>,
            completedByDay  |-> << >>,
            onTimeByDay     |-> << >> ] ]

(***************************************************************************)
(* WarehouseSimulation.step                                                *)
(***************************************************************************)
\* the per-day arrays are sparse JavaScript arrays: a function whose domain
\* is the set of indices that were ever written
ArrayOrZero(arr, idx) == IF idx \in DOMAIN arr THEN arr[idx] ELSE 0

ArrayPut(arr, idx, v) ==
  [i \in (DOMAIN arr) \cup {idx} |-> IF i = idx THEN v ELSE arr[i]]

\* Math.floor(tick / (24 * 60))
DayIndex(tick) == tick \div MinutesPerDay

\* rng() < residual, where rng() = u / 2^32 and residual = k / 1440 is the
\* fractional part of lambda: u < k * 2^32 / 1440, by long division in limbs
BelowResidual(u, k) ==
  LET hi   == (k * Limb) \div MinutesPerDay
      rem1 == (k * Limb) % MinutesPerDay
      lo   == (rem1 * Limb) \div MinutesPerDay
      rem2 == (rem1 * Limb) % MinutesPerDay
  IN  \/ u[1] < hi
      \/ u[1] = hi /\ u[2] < lo
      \/ u[1] = hi /\ u[2] = lo /\ rem2 > 0

\* the comparison of the draw with the residual turned around
ArrivalsInverted(ordersPerDay, u) ==
  LET floorLambda == ordersPerDay \div MinutesPerDay
      residual    == ordersPerDay % MinutesPerDay
  IN  floorLambda + (IF BelowResidual(u, residual) THEN 0 ELSE 1)

\* lambda rounded up instead of down (the residual is then never positive)
ArrivalsCeil(ordersPerDay, u) ==
  LET ceilLambda == - ((- ordersPerDay) \div MinutesPerDay)
      residual   == ordersPerDay - ceilLambda * MinutesPerDay
  IN  ceilLambda + (IF BelowResidual(u, residual) THEN 1 ELSE 0)

\* the number of orders one step creates, from its draw u; ordersPerDay is an
\* integer (readParams reads it with parseInt), so lambda = ordersPerDay / 1440
\* has floor ordersPerDay \div 1440 and residual (ordersPerDay % 1440) / 1440
Arrivals(ordersPerDay, u) ==
  LET floorLambda == ordersPerDay \div MinutesPerDay
      residual    == ordersPerDay % MinutesPerDay
  IN  floorLambda + (IF BelowResidual(u, residual) THEN 1 ELSE 0)

\* the day's counter overwritten with the arrivals of this step
trackCreatedOverwrite(s, arrivals) ==
  IF arrivals > 0
  THEN [s EXCEPT !.createdByDay = ArrayPut(@, DayIndex(s.tick), arrivals)]
  ELSE s

\* track daily created
trackCreated(s, arrivals) ==
  IF arrivals > 0
  THEN [s EXCEPT !.createdByDay =
          ArrayPut(@, DayIndex(s.tick), ArrayOrZero(@, DayIndex(s.tick)) + arrivals)]
  ELSE s

\* this.newOrders.push(new Order(this._generateOrderId(), this.tick))
pushOrder(s) ==
  [s EXCEPT !.orders       = Append(@, Order(s.nextOrderNum, s.tick)),
            !.newOrders    = Append(@, Len(s.orders) + 1),
            !.nextOrderNum = @ + 1]

RECURSIVE pushArrivals(_, _)
pushArrivals(s, n) == IF n <= 0 THEN s ELSE pushArrivals(pushOrder(s), n - 1)

\* completion that leaves the order with its employee
completeOrderNoRelease(s, e) ==
  LET o      == s.employees[e].currentOrder
      dayIdx == DayIndex(s.tick)
      dwell  == s.tick - s.orders[o].createdTick
  IN  [s EXCEPT !.orders[o].stage        = "COMPLETE",
                !.orders[o].completeTick = s.tick,
                !.completedOrders        = Append(@, o),
                !.completedByDay         = ArrayPut(@, dayIdx, ArrayOrZero(@, dayIdx) + 1),
                !.onTimeByDay            =
                   IF dwell <= s.slaMinutes
                   THEN ArrayPut(@, dayIdx, ArrayOrZero(@, dayIdx) + 1)
                   ELSE @]

\* completion stamped with the tick after the step
completeOrderNextTick(s, e) ==
  LET o      == s.employees[e].currentOrder
      dayIdx == DayIndex(s.tick)
      dwell  == (s.tick + 1) - s.orders[o].createdTick
  IN  [s EXCEPT !.orders[o].stage        = "COMPLETE",
                !.orders[o].completeTick = s.tick + 1,
                !.completedOrders        = Append(@, o),
                !.completedByDay         = ArrayPut(@, dayIdx, ArrayOrZero(@, dayIdx) + 1),
                !.onTimeByDay            =
                   IF dwell <= s.slaMinutes
                   THEN ArrayPut(@, dayIdx, ArrayOrZero(@, dayIdx) + 1)
                   ELSE @,
                !.employees[e].currentOrder = Null]

\* completion whose per-day counter takes dwell < slaMinutes as on time
completeOrderStrictSla(s, e) ==
  LET o      == s.employees[e].currentOrder
      dayIdx == DayIndex(s.tick)
      dwell  == s.tick - s.orders[o].createdTick
  IN  [s EXCEPT !.orders[o].stage        = "COMPLETE",
                !.orders[o].completeTick = s.tick,
                !.completedOrders        = Append(@, o),
                !.completedByDay         = ArrayPut(@, dayIdx, ArrayOrZero(@, dayIdx) + 1),
                !.onTimeByDay            =
                   IF dwell < s.slaMinutes
                   THEN ArrayPut(@, dayIdx, ArrayOrZero(@, dayIdx) + 1)
                   ELSE @,
                !.employees[e].currentOrder = Null]

\* completion counted on the day the order was created
completeOrderCreationDay(s, e) ==
  LET o      == s.employees[e].currentOrder
      dayIdx == DayIndex(s.orders[o].createdTick)
      dwell  == s.tick - s.orders[o].createdTick
  IN  [s EXCEPT !.orders[o].stage        = "COMPLETE",
                !.orders[o].completeTick = s.tick,
                !.completedOrders        = Append(@, o),
                !.completedByDay         = ArrayPut(@, dayIdx, ArrayOrZero(@, dayIdx) + 1),
                !.onTimeByDay            =
                   IF dwell <= s.slaMinutes
                   THEN ArrayPut(@, dayIdx, ArrayOrZero(@, dayIdx) + 1)
                   ELSE @,
                !.employees[e].currentOrder = Null]

\* completion that puts the order at the front of completedOrders
completeOrderUnshift(s, e) ==
  LET o      == s.employees[e].currentOrder
      dayIdx == DayIndex(s.tick)
      dwell  == s.tick - s.orders[o].createdTick
  IN  [s EXCEPT !.orders[o].stage        = "COMPLETE",
                !.orders[o].completeTick = s.tick,
                !.completedOrders        = << o >> \o @,
                !.completedByDay         = ArrayPut(@, dayIdx, ArrayOrZero(@, dayIdx) + 1),
                !.onTimeByDay            =
                   IF dwell <= s.slaMinutes
                   THEN ArrayPut(@, dayIdx, ArrayOrZero(@, dayIdx) + 1)
                   ELSE @,
                !.employees[e].currentOrder = Null]

\* the SHIP branch: the order of employee e completes
completeOrder(s, e) ==
  LET o      == s.employees[e].currentOrder
      dayIdx == DayIndex(s.tick)
      dwell  == s.tick - s.orders[o].createdTick
  IN  [s EXCEPT !.orders[o].stage        = "COMPLETE",
                !.orders[o].completeTick = s.tick,
                !.completedOrders        = Append(@, o),
                !.completedByDay         = ArrayPut(@, dayIdx, ArrayOrZero(@, dayIdx) + 1),
                !.onTimeByDay            =
                   IF dwell <= s.slaMinutes
                   THEN ArrayPut(@, dayIdx, ArrayOrZero(@, dayIdx) + 1)
                   ELSE @,
                !.employees[e].currentOrder = Null]

\* the stage tests as separate ifs instead of an else-if chain: an order
\* falls through every later stage in one step
advanceStageFallThrough(s, e) ==
  LET o  == s.employees[e].currentOrder
      s1 == IF s.orders[o].stage = "PICK"
            THEN [s EXCEPT !.orders[o].stage = "STAGE",
                           !.employees[e].timeRemaining = s.durations.STAGE]
            ELSE s
      s2 == IF s1.orders[o].stage = "STAGE"
            THEN [s1 EXCEPT !.orders[o].stage = "SHIP",
                            !.employees[e].timeRemaining = s.durations.SHIP]
            ELSE s1
  IN  IF s2.orders[o].stage = "SHIP" THEN completeOrder(s2, e) ELSE s2

\* a transition that restarts the countdown with the duration of the stage left
advanceStageStaleDuration(s, e) ==
  LET o == s.employees[e].currentOrder
  IN  IF s.orders[o].stage = "PICK"
      THEN [s EXCEPT !.orders[o].stage = "STAGE",
                     !.employees[e].timeRemaining = s.durations.PICK]
      ELSE IF s.orders[o].stage = "STAGE"
      THEN [s EXCEPT !.orders[o].stage = "SHIP",
                     !.employees[e].timeRemaining = s.durations.STAGE]
      ELSE IF s.orders[o].stage = "SHIP"
      THEN completeOrder(s, e)
      ELSE s

\* the countdown of employee e ran out: move its order to the next stage
advanceStage(s, e) ==
  LET o == s.employees[e].currentOrder
  IN  IF s.orders[o].stage = "PICK"
      THEN [s EXCEPT !.orders[o].stage = "STAGE",
                     !.employees[e].timeRemaining = s.durations.STAGE]
      ELSE IF s.orders[o].stage = "STAGE"
      THEN [s EXCEPT !.orders[o].stage = "SHIP",
                     !.employees[e].timeRemaining = s.durations.SHIP]
      ELSE IF s.orders[o].stage = "SHIP"
      THEN completeOrder(s, e)
      ELSE s

\* the countdown tested with < 0 instead of <= 0
advanceEmployeeLate(s, e) ==
  IF s.employees[e].currentOrder # Null
  THEN LET s1 == [s EXCEPT !.employees[e].timeRemaining = @ - 1]
       IN  IF s1.employees[e].timeRemaining < 0 THEN advanceStage(s1, e) ELSE s1
  ELSE s

\* the first loop's body without the decrement of timeRemaining
advanceEmployeeNoCountdown(s, e) ==
  IF s.employees[e].currentOrder # Null
  THEN IF s.employees[e].timeRemaining <= 0 THEN advanceStage(s, e) ELSE s
  ELSE s

\* the body of the first loop over the employees
advanceEmployee(s, e) ==
  IF s.employees[e].currentOrder # Null
  THEN LET s1 == [s EXCEPT !.employees[e].timeRemaining = @ - 1]
       IN  IF s1.employees[e].timeRemaining <= 0 THEN advanceStage(s1, e) ELSE s1
  ELSE s

RECURSIVE advanceAllReversed(_, _)
\* the first loop visiting the employees from the last to employee e
advanceAllReversed(s, e) ==
  IF e > Len(s.employees) THEN s ELSE advanceEmployee(advanceAllReversed(s, e + 1), e)

RECURSIVE advanceAll(_, _)
\* for (const emp of this.employees), from employee e on
advanceAll(s, e) ==
  IF e > Len(s.employees) THEN s ELSE advanceAll(advanceEmployee(s, e), e + 1)

\* assignment that reads newOrders[0] and leaves it in the queue
assignEmployeePeek(s, e) ==
  IF idle(s.employees[e]) /\ Len(s.newOrders) > 0
  THEN LET ord == Head(s.newOrders)
       IN  [s EXCEPT !.orders[ord].stage            = "PICK",
                     !.employees[e].currentOrder    = ord,
                     !.employees[e].timeRemaining   = s.durations.PICK]
  ELSE s

\* assignment that pops the newest order instead of shifting the oldest
assignEmployeePop(s, e) ==
  IF idle(s.employees[e]) /\ Len(s.newOrders) > 0
  THEN LET ord == s.newOrders[Len(s.newOrders)]
       IN  [s EXCEPT !.newOrders                    = SubSeq(@, 1, Len(@) - 1),
                     !.orders[ord].stage            = "PICK",
                     !.employees[e].currentOrder    = ord,
                     !.employees[e].timeRemaining   = s.durations.PICK]
  ELSE s

\* assignment that does not test whether the employee is idle
assignEmployeeBusy(s, e) ==
  IF Len(s.newOrders) > 0
  THEN LET ord == Head(s.newOrders)
       IN  [s EXCEPT !.newOrders                    = Tail(@),
                     !.orders[ord].stage            = "PICK",
                     !.employees[e].currentOrder    = ord,
                     !.employees[e].timeRemaining   = s.durations.PICK]
  ELSE s

\* the body of the second loop: an idle employee takes the head of newOrders
assignEmployee(s, e) ==
  IF idle(s.employees[e]) /\ Len(s.newOrders) > 0
  THEN LET ord == Head(s.newOrders)
       IN  [s EXCEPT !.newOrders                    = Tail(@),
                     !.orders[ord].stage            = "PICK",
                     !.employees[e].currentOrder    = ord,
                     !.employees[e].timeRemaining   = s.durations.PICK]
  ELSE s

RECURSIVE assignAll(_, _)
assignAll(s, e) ==
  IF e > Len(s.employees) THEN s ELSE assignAll(assignEmployee(s, e), e + 1)

\* step() with the assignment loop run before the advancement loop
stepAssignFirst(cl, s) ==
  LET draw     == rngCall(cl, s.rng)
      arrivals == Arrivals(s.ordersPerDay, draw.value)
      s1       == pushArrivals(trackCreated(s, arrivals), arrivals)
      s2       == advanceAll(assignAll(s1, 1), 1)
  IN  [ closures |-> draw.closures, sim |-> [s2 EXCEPT !.tick = @ + 1] ]

\* step(): one draw, arrivals, stage advancement, assignment, tick += 1
step(cl, s) ==
  LET draw     == rngCall(cl, s.rng)
      arrivals == Arrivals(s.ordersPerDay, draw.value)
      s1       == pushArrivals(trackCreated(s, arrivals), arrivals)
      s2       == assignAll(advanceAll(s1, 1), 1)
  IN  [ closures |-> draw.closures, sim |-> [s2 EXCEPT !.tick = @ + 1] ]

\* run with the loop test i <= ticks: one step too many
RECURSIVE runOneMore(_, _, _)
runOneMore(cl, s, ticks) ==
  IF ticks < 0 THEN [ closures |-> cl, sim |-> s ]
  ELSE LET r == step(cl, s) IN runOneMore(r.closures, r.sim, ticks - 1)

RECURSIVE run(_, _, _)
\* run(ticks): for (let i = 0; i < ticks; i++) this.step()
run(cl, s, ticks) ==
  IF ticks <= 0 THEN [ closures |-> cl, sim |-> s ]
  ELSE LET r == step(cl, s) IN run(r.closures, r.sim, ticks - 1)

(***************************************************************************)
(* WarehouseSimulation._metrics (the counts it returns)                    *)
(***************************************************************************)
Dwell(o) == o.completeTick - o.createdTick

\* done = this.completedOrders.length
doneCount(s) == Len(s.completedOrders)

\* onTimeCount: the completed orders with dwell <= slaMinutes (0 when none)
onTimeCount(s) ==
  Cardinality({ i \in 1 .. Len(s.completedOrders) :
                  Dwell(s.orders[s.completedOrders[i]]) <= s.slaMinutes })

\* laneQ = this.newOrders.length
laneQ(s) == Len(s.newOrders)

(***************************************************************************)
(* The engine driven by step() calls on one instance                       *)
(***************************************************************************)
\* history: the orders a step moved from NEW to PICK get the step's tick
RecordAssigned(at, before, after) ==
  [o \in 1 .. Len(after.orders) |->
     IF o <= Len(before.orders) /\ before.orders[o].stage # "NEW" THEN at[o]
     ELSE IF after.orders[o].stage # "NEW" THEN before.tick
     ELSE Null]

Init ==
  \E cfg \in Configs :
    LET made == WarehouseSimulation(<< >>, cfg)
    IN  /\ config = cfg
        /\ sims = << made.sim >>
        /\ closures = made.closures
        /\ assignedAt = << << >> >>
        /\ PageLoaded

\* sims[i].step(), while the instance's clock is below `limit`
StepTo(i, limit) ==
  /\ i \in DOMAIN sims
  /\ sims[i].tick < limit
  /\ LET r == step(closures, sims[i])
     IN  /\ sims' = [sims EXCEPT ![i] = r.sim]
         /\ closures' = r.closures
         /\ assignedAt' = [assignedAt EXCEPT ![i] = RecordAssigned(@, sims[i], r.sim)]
  /\ UNCHANGED << config, page >>

\* sims[i].step()
Step(i) == StepTo(i, MaxTick)

Next == Step(1)

Spec == Init /\ [][Next]_vars

\* step() called forever: a step that can be taken is eventually taken.  This
\* is weak fairness of Next, with ENABLED <<Next>>_vars written as what it
\* amounts to: the guard of StepTo (step() is total and always moves the clock)
StepFairness == []<>(sims[1].tick >= MaxTick) \/ []<><<Next>>_vars

SpecLive == Init /\ [][Next]_vars /\ StepFairness

\* the instance the single-instance claims are about
sim == sims[1]

(***************************************************************************)
(* Two instances built from the same options, stepped independently        *)
(***************************************************************************)
DetConfigs ==
  { cfg \in Configs : /\ cfg.numEmployees >= 1
                      /\ cfg.ordersPerDay \in {720, 1800}
                      /\ cfg.minutesPerOrder \in {0, 4}
                      /\ cfg.slaMinutes = 4 }

InitDet ==
  \E cfg \in DetConfigs :
    LET first  == WarehouseSimulation(<< >>, cfg)
        second == WarehouseSimulation(first.closures, cfg)
    IN  /\ config = cfg
        /\ sims = << first.sim, second.sim >>
        /\ closures = second.closures
        /\ assignedAt = << << >>, << >> >>
        /\ PageLoaded

NextDet == Step(1) \/ Step(2)

SpecDet == InitDet /\ [][NextDet]_vars

(***************************************************************************)
(* Two instances built from the same options: one driven by step() calls,  *)
(* the other by run(n) calls                                               *)
(***************************************************************************)
MaxRun == 3

\* the arguments of run: a negative one, zero, and up to MaxRun ticks
RunLengths == -1 .. MaxRun

RECURSIVE RecordRun(_, _, _, _)
\* history: RecordAssigned over the steps of one run(ticks)
RecordRun(at, cl, s, ticks) ==
  IF ticks <= 0 THEN at
  ELSE LET r == step(cl, s)
       IN  RecordRun(RecordAssigned(at, s, r.sim), r.closures, r.sim, ticks - 1)

\* sims[i].run(n)
Run(i, n) ==
  /\ i \in DOMAIN sims
  /\ sims[i].tick + Max(n, 0) <= MaxTick
  /\ LET r == run(closures, sims[i], n)
     IN  /\ sims' = [sims EXCEPT ![i] = r.sim]
         /\ closures' = r.closures
         /\ assignedAt' = [assignedAt EXCEPT ![i] = RecordRun(@, closures, sims[i], n)]
  /\ UNCHANGED << config, page >>

RunSome == \E n \in RunLengths : Run(2, n)

NextRun == Step(1) \/ RunSome

RunConfigs == { cfg \in DetConfigs : cfg.seed \in {0, DefaultSeed} }

InitRun ==
  \E cfg \in RunConfigs :
    LET first  == WarehouseSimulation(<< >>, cfg)
        second == WarehouseSimulation(first.closures, cfg)
    IN  /\ config = cfg
        /\ sims = << first.sim, second.sim >>
        /\ closures = second.closures
        /\ assignedAt = << << >>, << >> >>
        /\ PageLoaded

SpecRun == InitRun /\ [][NextRun]_vars

(***************************************************************************)
(* One instance stepped past the end of its first day                      *)
(***************************************************************************)
DayMargin == 20

\* the run ends DayMargin ticks into the second day
DayLimit == MinutesPerDay + DayMargin

\* with seed 78 and one order per day the first order arrives on day 1
DaySeeds == {0, DefaultSeed, 78}

DayConfigs ==
  [ numEmployees    : {1, 2},
    ordersPerDay    : {1, DefaultOrdersPerDay},
    minutesPerOrder : {0},
    seed            : DaySeeds,
    slaMinutes      : {4} ]

InitDays ==
  \E cfg \in DayConfigs :
    LET made == WarehouseSimulation(<< >>, cfg)
    IN  /\ config = cfg
        /\ sims = << made.sim >>
        /\ closures = made.closures
        /\ assignedAt = << << >> >>
        /\ PageLoaded

StepDays == StepTo(1, DayLimit)

NextDays == StepDays

SpecDays == InitDays /\ [][NextDays]_vars

(***************************************************************************)
(* The page: readParams, startSimulation and its interval callback,        *)
(* resetSimulation.  render() and drawChart() only read the instance.      *)
(***************************************************************************)
\* how many times setInterval is called
MaxStarts == 2

\* what parseInt(text, 10) returns: NaN, or an integer
NotANumber == [ nan |-> TRUE, value |-> 0 ]

Parsed(n) == [ nan |-> FALSE, value |-> n ]

\* x || d for a number x: NaN and 0 are falsy
OrElse(x, d) == IF x.nan \/ x.value = 0 THEN d ELSE x.value

\* the parsed contents of the five input fields
Fields ==
  [ ordersPerDay     : { NotANumber, Parsed(30) },
    days             : { NotANumber, Parsed(2) },
    employees        : { NotANumber, Parsed(-2) },
    minutesPerOrder  : { Parsed(0) },
    minutesPerSecond : { Parsed(-5), Parsed(7) } ]

readParams(f) ==
  [ ordersPerDay     |-> OrElse(f.ordersPerDay, 0),
    days             |-> Max(1, OrElse(f.days, 1)),
    employees        |-> Max(1, OrElse(f.employees, 1)),
    minutesPerOrder  |-> Max(1, OrElse(f.minutesPerOrder, 12)),
    minutesPerSecond |-> Max(1, OrElse(f.minutesPerSecond, 60)) ]

\* if (timerId): null and 0 are falsy
Truthy(id) == id # Null /\ id # 0

\* clearInterval(id) on the active timers ts
clearInterval(ts, id) == { t \in ts : t.id # id }

\* the options of `new WarehouseSimulation()`, which render() shows while
\* sim is null
DefaultOptions ==
  [ numEmployees    |-> 8,
    ordersPerDay    |-> DefaultOrdersPerDay,
    minutesPerOrder |-> 12,
    seed            |-> DefaultSeed,
    slaMinutes      |-> DefaultSlaMinutes ]

\* the page after the script ran: no instance, no timer
InitPage ==
  /\ sims = << >>
  /\ closures = << >>
  /\ config = DefaultOptions
  /\ assignedAt = << >>
  /\ PageLoaded

\* startSimulation that leaves the previous timer running
startSimulationKeepTimer(f) ==
  LET p       == readParams(f)
      options == [ numEmployees    |-> p.employees,
                   ordersPerDay    |-> p.ordersPerDay,
                   minutesPerOrder |-> p.minutesPerOrder,
                   seed            |-> DefaultSeed,
                   slaMinutes      |-> DefaultSlaMinutes ]
      made    == WarehouseSimulation(<< >>, options)
  IN  /\ lastHandle < MaxStarts
      /\ lastHandle' = lastHandle + 1
      /\ timers' = timers \cup { [ id |-> lastHandle + 1, stepPerSecond |-> p.minutesPerSecond ] }
      /\ timerId' = lastHandle + 1
      /\ targetTicks' = p.days * MinutesPerDay
      /\ config' = options
      /\ sims' = << made.sim >>
      /\ closures' = made.closures
      /\ assignedAt' = << << >> >>

\* a click on Start, with the fields holding f.  The instance and the rng
\* closure of the previous run become unreachable; setInterval returns the
\* next handle.  (The history assignedAt is not kept for the page.)
startSimulation(f) ==
  LET cleared == IF Truthy(timerId) THEN clearInterval(timers, timerId) ELSE timers
      p       == readParams(f)
      options == [ numEmployees    |-> p.employees,
                   ordersPerDay    |-> p.ordersPerDay,
                   minutesPerOrder |-> p.minutesPerOrder,
                   seed            |-> DefaultSeed,
                   slaMinutes      |-> DefaultSlaMinutes ]
      made    == WarehouseSimulation(<< >>, options)
  IN  /\ lastHandle < MaxStarts
      /\ lastHandle' = lastHandle + 1
      /\ timers' = cleared \cup { [ id |-> lastHandle + 1, stepPerSecond |-> p.minutesPerSecond ] }
      /\ timerId' = lastHandle + 1
      /\ targetTicks' = p.days * MinutesPerDay
      /\ config' = options
      /\ sims' = << made.sim >>
      /\ closures' = made.closures
      /\ assignedAt' = << << >> >>

\* the callback of the active timer t fires
intervalCallback(t) ==
  IF sims = << >> THEN UNCHANGED vars
  ELSE LET remaining == Max(0, targetTicks - sims[1].tick)
       IN  IF remaining = 0
           THEN /\ timers' = clearInterval(timers, timerId)
                /\ timerId' = Null
                /\ UNCHANGED << sims, closures, config, assignedAt, targetTicks, lastHandle >>
           ELSE /\ UNCHANGED << config, assignedAt, page >>
                /\ LET r == run(closures, sims[1], Min(t.stepPerSecond, remaining))
                   IN  /\ sims' = << r.sim >>
                       /\ closures' = r.closures

\* a click on Reset
resetSimulation ==
  /\ timers' = IF Truthy(timerId) THEN clearInterval(timers, timerId) ELSE timers
  /\ timerId' = Null
  /\ sims' = << >>
  /\ closures' = << >>
  /\ assignedAt' = << >>
  /\ UNCHANGED << config, targetTicks, lastHandle >>

StartClick == \E f \in Fields : startSimulation(f)

TimerFires == \E t \in timers : intervalCallback(t)

NextPage == StartClick \/ resetSimulation \/ TimerFires

\* the browser keeps firing an active interval timer: weak fairness of
\* TimerFires, with ENABLED <<TimerFires>>_vars written as what it amounts to,
\* a timer being active
TimerFairness == []<>(timers = {}) \/ []<><<TimerFires>>_vars

SpecPage == InitPage /\ [][NextPage]_vars /\ TimerFairness

(***************************************************************************)
(* Helpers of the properties                                               *)
(***************************************************************************)
OrderRefs(s) == 1 .. Len(s.orders)

Busy(s) == { e \in 1 .. Len(s.employees) : s.employees[e].currentOrder # Null }

Holders(s, o) == { e \in 1 .. Len(s.employees) : s.employees[e].currentOrder = o }

Positions(seq, x) == { i \in 1 .. Len(seq) : seq[i] = x }

StageRank(stage) ==
  CASE stage = "NEW"      -> 0
    [] stage = "PICK"     -> 1
    [] stage = "STAGE"    -> 2
    [] stage = "SHIP"     -> 3
    [] stage = "COMPLETE" -> 4

ServiceTime(s) == s.durations.PICK + s.durations.STAGE + s.durations.SHIP

\* everything of an instance but the identity of its rng closure
Observable(s) == [s EXCEPT !.rng = 0]

(***************************************************************************)
(* Properties                                                              *)
(***************************************************************************)

\* C1 (conservation): at every tick boundary the number of orders created so
\* far, nextOrderNum - 1000, equals the length of the waiting queue plus the
\* number of employees holding an order plus the length of completedOrders.
Conservation ==
  sim.nextOrderNum - FirstOrderNum
    = Len(sim.newOrders) + Cardinality(Busy(sim)) + Len(sim.completedOrders)

\* orders wait, two employees are busy and some orders are complete
ConservationWitness ==
  /\ Len(sim.newOrders) > 0
  /\ Cardinality(Busy(sim)) = 2
  /\ Len(sim.completedOrders) > 1

\* C2 (determinism): two instances built with the same options and seed are
\* in the same state whenever they have run the same number of steps:
\* the same orders, queue, completedOrders, employees, per-day arrays, tick.
Determinism ==
  (Len(sims) = 2 /\ sims[1].tick = sims[2].tick)
    => Observable(sims[1]) = Observable(sims[2])

\* both instances ran the same number of steps and completed orders, and
\* each drew from its own closure
DeterminismWitness ==
  /\ Len(sims) = 2
  /\ sims[1].tick = sims[2].tick
  /\ sims[1].tick > 5
  /\ Len(sims[1].completedOrders) > 0
  /\ Len(sims[2].newOrders) > 0
  /\ sims[1].rng # sims[2].rng

\* C3 (monotonic stage progression): a step leaves the stage of every order
\* as it is or moves it to the next stage of NEW < PICK < STAGE < SHIP <
\* COMPLETE; an order the step creates ends the step in NEW or PICK.
StageStepOk(before, after) ==
  \A o \in OrderRefs(after) :
    LET from == IF o \in OrderRefs(before) THEN StageRank(before.orders[o].stage) ELSE 0
        to   == StageRank(after.orders[o].stage)
    IN  to = from \/ to = from + 1

MonotonicStages == [][StageStepOk(sim, sim')]_vars

\* an order went through every stage while others are in STAGE, SHIP and NEW
MonotonicStagesWitness ==
  /\ \E o \in OrderRefs(sim) : sim.orders[o].stage = "COMPLETE"
  /\ \E o \in OrderRefs(sim) : sim.orders[o].stage = "STAGE"
  /\ \E o \in OrderRefs(sim) : sim.orders[o].stage = "SHIP"
  /\ \E o \in OrderRefs(sim) : sim.orders[o].stage = "NEW"

\* C4 (completeTick set once): completeTick is null while the stage is not
\* COMPLETE; the step that makes an order COMPLETE sets completeTick to the
\* tick of that step, which is at least createdTick; and no later step
\* changes any field of an order that is in completedOrders.
CompleteTickState(s) ==
  \A o \in OrderRefs(s) :
    IF s.orders[o].stage = "COMPLETE"
    THEN /\ s.orders[o].completeTick # Null
         /\ s.orders[o].completeTick >= s.orders[o].createdTick
    ELSE s.orders[o].completeTick = Null

CompleteTickStep(before, after) ==
  /\ \A i \in 1 .. Len(before.completedOrders) :
       after.orders[before.completedOrders[i]] = before.orders[before.completedOrders[i]]
  /\ \A o \in OrderRefs(after) :
       ( /\ after.orders[o].stage = "COMPLETE"
         /\ ~ (o \in OrderRefs(before) /\ before.orders[o].stage = "COMPLETE") )
       => after.orders[o].completeTick = before.tick

CompleteTickOnce ==
  /\ [] CompleteTickState(sim)
  /\ [][CompleteTickStep(sim, sim')]_vars

\* an order completed several steps ago, after waiting in the queue
CompleteTickOnceWitness ==
  \E i \in 1 .. Len(sim.completedOrders) :
    LET o == sim.orders[sim.completedOrders[i]]
    IN  /\ o.completeTick + 3 < sim.tick
        /\ o.completeTick - o.createdTick > ServiceTime(sim)

\* C5 (FIFO): of two orders created at ticks t1 < t2 that were both
\* assigned, the earlier one was assigned at a tick no later than the other;
\* orders leave the waiting queue in the order they were appended: the queue
\* always holds exactly the most recently created orders, oldest first, and
\* a step removes only from its head.
FifoAssigned(s, at) ==
  \A o1, o2 \in OrderRefs(s) :
    ( /\ s.orders[o1].createdTick < s.orders[o2].createdTick
      /\ at[o1] # Null
      /\ at[o2] # Null )
    => at[o1] <= at[o2]

FifoQueue(s) ==
  \A i \in 1 .. Len(s.newOrders) :
    s.newOrders[i] = Len(s.orders) - Len(s.newOrders) + i

\* the queue after a step is a suffix of the old queue followed by the
\* orders the step created
FifoStep(before, after) ==
  LET created == [i \in 1 .. (Len(after.orders) - Len(before.orders)) |->
                    Len(before.orders) + i]
      all     == before.newOrders \o created
  IN  \E k \in 0 .. Len(all) : after.newOrders = SubSeq(all, k + 1, Len(all))

FifoFairness ==
  /\ [] (FifoAssigned(sim, assignedAt[1]) /\ FifoQueue(sim))
  /\ [][FifoStep(sim, sim')]_vars

\* two orders created at different ticks were assigned at different ticks,
\* the later one after waiting, and more orders still wait
FifoFairnessWitness ==
  /\ Len(sim.newOrders) > 1
  /\ \E o1, o2 \in OrderRefs(sim) :
       /\ sim.orders[o1].createdTick < sim.orders[o2].createdTick
       /\ assignedAt[1][o1] # Null
       /\ assignedAt[1][o2] # Null
       /\ assignedAt[1][o1] < assignedAt[1][o2]
       /\ assignedAt[1][o2] > sim.orders[o2].createdTick

\* C6 (SLA accounting monotonicity): completedCount = |completedOrders| and
\* the onTimeCount of _metrics never decrease from one tick to the next, and
\* onTimeCount <= completedCount in every state.
SlaMonotonic ==
  /\ [] (onTimeCount(sim) <= doneCount(sim))
  /\ [][ /\ doneCount(sim') >= doneCount(sim)
         /\ onTimeCount(sim') >= onTimeCount(sim) ]_vars

\* some completed orders are on time and some are late
SlaMonotonicWitness ==
  /\ onTimeCount(sim) > 1
  /\ doneCount(sim) > onTimeCount(sim) + 1

\* C7 (exclusive ownership and placement): an order is held by at most one
\* employee, and every created order is in exactly one place, the one of its
\* stage: the waiting queue iff NEW, an employee iff PICK, STAGE or SHIP,
\* completedOrders iff COMPLETE.  (An employee holds at most one order by
\* having a single currentOrder field.)
ExclusiveOwnership ==
  \A o \in OrderRefs(sim) :
    LET queued == Cardinality(Positions(sim.newOrders, o))
        held   == Cardinality(Holders(sim, o))
        done   == Cardinality(Positions(sim.completedOrders, o))
        stage  == sim.orders[o].stage
    IN  /\ queued + held + done = 1
        /\ (queued = 1) <=> (stage = "NEW")
        /\ (held = 1) <=> (stage \in {"PICK", "STAGE", "SHIP"})
        /\ (done = 1) <=> (stage = "COMPLETE")

\* every array and every held reference names a created order
ReferencesValid ==
  /\ \A i \in 1 .. Len(sim.newOrders) : sim.newOrders[i] \in OrderRefs(sim)
  /\ \A i \in 1 .. Len(sim.completedOrders) : sim.completedOrders[i] \in OrderRefs(sim)
  /\ \A e \in Busy(sim) : sim.employees[e].currentOrder \in OrderRefs(sim)

ExclusivePlacement == ExclusiveOwnership /\ ReferencesValid

\* both employees hold orders in different stages, others wait or are done
ExclusivePlacementWitness ==
  /\ Cardinality(Busy(sim)) = 2
  /\ sim.orders[sim.employees[1].currentOrder].stage
       # sim.orders[sim.employees[2].currentOrder].stage
  /\ Len(sim.newOrders) > 0
  /\ Len(sim.completedOrders) > 0

\* C8 (scenario A, zero arrival rate): when the ordersPerDay option is 0 or
\* negative (clamped to 0), whatever the number of employees and the draws
\* (the smallest and the largest draw included), no order is ever created:
\* the waiting queue and completedOrders stay empty and every employee stays
\* idle.
ExtremeDraws == { << 0, 0 >>, << 0, 1 >>, << 32768, 0 >>, << 65535, 65535 >> }

ZeroArrivalRate ==
  config.ordersPerDay <= 0 =>
    /\ sim.ordersPerDay = 0
    /\ \A u \in ExtremeDraws : Arrivals(sim.ordersPerDay, u) = 0
    /\ sim.orders = << >>
    /\ sim.nextOrderNum = FirstOrderNum
    /\ sim.newOrders = << >>
    /\ sim.completedOrders = << >>
    /\ \A e \in 1 .. Len(sim.employees) : idle(sim.employees[e])

\* many steps were taken with a negative ordersPerDay and employees present
ZeroArrivalRateWitness ==
  /\ config.ordersPerDay < 0
  /\ Len(sim.employees) > 0
  /\ sim.tick >= 10

\* C9 (scenario B, exact service time): an order assigned in the step at
\* tick a completes with completeTick = a + PICK + STAGE + SHIP durations.
\* With one employee and minutesPerOrder = 10 the durations are 5, 3, 2, and
\* the first order created at tick 0 is assigned in that step and completes
\* exactly at tick 10 (not before), with dwell 10.
ServiceTimeExact(s, at) ==
  \A o \in OrderRefs(s) :
    s.orders[o].stage = "COMPLETE" => s.orders[o].completeTick = at[o] + ServiceTime(s)

ScenarioB(s, at) ==
  (Len(s.employees) = 1 /\ config.minutesPerOrder = 10) =>
    /\ s.durations = [PICK |-> 5, STAGE |-> 3, SHIP |-> 2]
    /\ (Len(s.orders) > 0 /\ s.orders[1].createdTick = 0) =>
         /\ at[1] = 0
         /\ s.tick <= 10 => s.orders[1].stage # "COMPLETE"
         /\ s.tick > 10 => /\ s.orders[1].stage = "COMPLETE"
                           /\ s.orders[1].completeTick = 10
                           /\ Dwell(s.orders[1]) = 10
                           /\ s.completedOrders[1] = 1

ExactServiceTime == ServiceTimeExact(sim, assignedAt[1]) /\ ScenarioB(sim, assignedAt[1])

\* scenario B ran to the completion of the order created at tick 0
ExactServiceTimeWitness ==
  /\ Len(sim.employees) = 1
  /\ config.minutesPerOrder = 10
  /\ Len(sim.completedOrders) > 0
  /\ sim.orders[1].createdTick = 0
  /\ sim.orders[1].completeTick = 10

\* C10 (scenario C, SLA classification): a completed order counts as on time
\* iff completeTick - createdTick <= slaMinutes, in the per-day onTime
\* counter as in the onTimeCount of _metrics; with slaMinutes = 4 and
\* durations 5, 3, 2 every completed order has dwell >= 10, is late, and
\* onTimeCount stays 0.
OnTimeOfDay(s, d) ==
  { i \in 1 .. Len(s.completedOrders) :
      /\ DayIndex(s.orders[s.completedOrders[i]].completeTick) = d
      /\ Dwell(s.orders[s.completedOrders[i]]) <= s.slaMinutes }

SlaClassification ==
  /\ \A d \in 0 .. DayIndex(sim.tick) :
       /\ ArrayOrZero(sim.onTimeByDay, d) = Cardinality(OnTimeOfDay(sim, d))
       /\ d \in DOMAIN sim.onTimeByDay <=> OnTimeOfDay(sim, d) # {}
  /\ DOMAIN sim.onTimeByDay \subseteq 0 .. DayIndex(sim.tick)
  /\ onTimeCount(sim) = Cardinality(UNION { OnTimeOfDay(sim, d) : d \in 0 .. DayIndex(sim.tick) })
  /\ (sim.slaMinutes = 4 /\ sim.durations = [PICK |-> 5, STAGE |-> 3, SHIP |-> 2]) =>
       /\ onTimeCount(sim) = 0
       /\ sim.onTimeByDay = << >>
       /\ \A i \in 1 .. Len(sim.completedOrders) :
            Dwell(sim.orders[sim.completedOrders[i]]) >= 10

\* scenario C: orders completed under slaMinutes = 4 and durations 5, 3, 2
SlaClassificationWitness ==
  /\ sim.slaMinutes = 4
  /\ sim.durations = [PICK |-> 5, STAGE |-> 3, SHIP |-> 2]
  /\ Len(sim.completedOrders) > 1

\* an order completed with dwell exactly slaMinutes and was counted on time
SlaBoundaryReached ==
  \E i \in 1 .. Len(sim.completedOrders) :
    Dwell(sim.orders[sim.completedOrders[i]]) = sim.slaMinutes

\* C11 (zero workers): an instance built with numEmployees = 0 has no
\* employee; whatever the arrival rate, step() runs to its end from every
\* state (its result is defined, one tick later), every created order stays
\* in stage NEW in the waiting queue, in creation order, and
\* completedOrders stays empty.
ZeroWorkers ==
  config.numEmployees = 0 =>
    /\ sim.employees = << >>
    /\ step(closures, sim).sim.tick = sim.tick + 1
    /\ \A o \in OrderRefs(sim) : sim.orders[o].stage = "NEW"
    /\ sim.newOrders = [i \in 1 .. Len(sim.orders) |-> i]
    /\ sim.completedOrders = << >>
    /\ sim.completedByDay = << >>

\* orders piled up in the queue of an instance without employees
ZeroWorkersWitness ==
  /\ config.numEmployees = 0
  /\ sim.tick >= 10
  /\ Len(sim.newOrders) > 5

\* C12 (run): run(n) is n step() calls: an instance driven by run(n) calls
\* and one driven by single step() calls from the same options are in the
\* same state, with the same rng state, whenever their ticks agree; step()
\* adds exactly 1 to tick, run(n) adds exactly n for n >= 0 (nothing for
\* n < 0), and tick is never negative.
RunAgreesWithSteps ==
  (Len(sims) = 2 /\ sims[1].tick = sims[2].tick) =>
    /\ Observable(sims[1]) = Observable(sims[2])
    /\ closures[sims[1].rng] = closures[sims[2].rng]
    /\ assignedAt[1] = assignedAt[2]

TickAdvance ==
  /\ sims'[1] = step(closures, sims[1]).sim => sims'[1].tick = sims[1].tick + 1
  /\ \A n \in RunLengths :
       (Len(sims) = 2 /\ sims'[2] = run(closures, sims[2], n).sim)
         => sims'[2].tick = sims[2].tick + Max(n, 0)

RunEquivalence ==
  /\ [] RunAgreesWithSteps
  /\ [] (\A i \in DOMAIN sims : sims[i].tick >= 0)
  /\ [][TickAdvance]_vars

\* both instances reached the same tick, one by steps, one by runs, with
\* orders completed and waiting
RunEquivalenceWitness ==
  /\ Len(sims) = 2
  /\ sims[1].tick = sims[2].tick
  /\ sims[2].tick > 7
  /\ Len(sims[2].completedOrders) > 1
  /\ Len(sims[2].newOrders) > 0

\* C13 (per-day counters agree with the state): for each day d,
\* createdByDay[d] (0 if absent) is the number of orders created on day d,
\* completedByDay[d] the number of completed orders completed on day d,
\* onTimeByDay[d] the number of those with dwell <= slaMinutes, so
\* onTimeByDay[d] <= completedByDay[d]; the sums over the days are the total
\* created, |completedOrders| and the onTimeCount of _metrics.
RECURSIVE ArraySum(_)
ArraySum(arr) ==
  IF DOMAIN arr = {} THEN 0
  ELSE LET d == CHOOSE x \in DOMAIN arr : TRUE
       IN  arr[d] + ArraySum([i \in (DOMAIN arr) \ {d} |-> arr[i]])

CreatedOfDay(s, d) == { o \in OrderRefs(s) : DayIndex(s.orders[o].createdTick) = d }

CompletedOfDay(s, d) ==
  { i \in 1 .. Len(s.completedOrders) :
      DayIndex(s.orders[s.completedOrders[i]].completeTick) = d }

DaysOf(s) ==
  (0 .. DayIndex(s.tick)) \cup DOMAIN s.createdByDay
     \cup DOMAIN s.completedByDay \cup DOMAIN s.onTimeByDay

PerDayCounters ==
  /\ \A d \in DaysOf(sim) :
       /\ ArrayOrZero(sim.createdByDay, d) = Cardinality(CreatedOfDay(sim, d))
       /\ ArrayOrZero(sim.completedByDay, d) = Cardinality(CompletedOfDay(sim, d))
       /\ ArrayOrZero(sim.onTimeByDay, d) = Cardinality(OnTimeOfDay(sim, d))
       /\ ArrayOrZero(sim.onTimeByDay, d) <= ArrayOrZero(sim.completedByDay, d)
  /\ ArraySum(sim.createdByDay) = sim.nextOrderNum - FirstOrderNum
  /\ ArraySum(sim.createdByDay) = Len(sim.orders)
  /\ ArraySum(sim.completedByDay) = Len(sim.completedOrders)
  /\ ArraySum(sim.onTimeByDay) = onTimeCount(sim)

\* both days have created, completed, on-time and late orders, and an order
\* created on day 0 completed on day 1
PerDayCountersWitness ==
  /\ \A d \in {0, 1} :
       /\ ArrayOrZero(sim.createdByDay, d) > 0
       /\ ArrayOrZero(sim.onTimeByDay, d) > 0
       /\ ArrayOrZero(sim.completedByDay, d) > ArrayOrZero(sim.onTimeByDay, d)
  /\ \E i \in CompletedOfDay(sim, 1) :
       DayIndex(sim.orders[sim.completedOrders[i]].createdTick) = 0

\* the first order was created on day 1: the arrays have no entry for day 0
PerDayHoleReached ==
  /\ DOMAIN sim.createdByDay = {1}
  /\ DOMAIN sim.completedByDay = {1}

\* C14 (per-day arrays are not altered retroactively): a step at tick t
\* changes createdByDay, completedByDay and onTimeByDay only at day index
\* floor(t / 1440), and only by increasing the entry; the entries of every
\* other day stay as they are.
ArrayFrame(before, after, day) ==
  \A d \in (DOMAIN before) \cup (DOMAIN after) :
    IF d = day
    THEN /\ ArrayOrZero(after, d) >= ArrayOrZero(before, d)
         /\ d \in DOMAIN before => d \in DOMAIN after
    ELSE /\ d \in DOMAIN before
         /\ d \in DOMAIN after
         /\ after[d] = before[d]

PerDayFrameStep(before, after) ==
  /\ ArrayFrame(before.createdByDay, after.createdByDay, DayIndex(before.tick))
  /\ ArrayFrame(before.completedByDay, after.completedByDay, DayIndex(before.tick))
  /\ ArrayFrame(before.onTimeByDay, after.onTimeByDay, DayIndex(before.tick))

PerDayFrame == [][PerDayFrameStep(sim, sim')]_vars

\* on day 1 orders created on day 0 completed, on time and late
PerDayFrameWitness ==
  /\ DayIndex(sim.tick) = 1
  /\ ArrayOrZero(sim.createdByDay, 1) > 1
  /\ ArrayOrZero(sim.onTimeByDay, 1) > 0
  /\ \E i \in CompletedOfDay(sim, 1) :
       /\ DayIndex(sim.orders[sim.completedOrders[i]].createdTick) = 0
       /\ Dwell(sim.orders[sim.completedOrders[i]]) > sim.slaMinutes

\* C15 (completedOrders is append-only, in completion order): a step leaves
\* the existing entries of completedOrders in place and appends exactly the
\* orders it completed, so completeTick never decreases along the sequence.
CompletedAppendStep(before, after) ==
  /\ Len(after.completedOrders) >= Len(before.completedOrders)
  /\ SubSeq(after.completedOrders, 1, Len(before.completedOrders)) = before.completedOrders
  /\ \A i \in (Len(before.completedOrders) + 1) .. Len(after.completedOrders) :
       /\ after.orders[after.completedOrders[i]].completeTick = before.tick
       /\ before.orders[after.completedOrders[i]].stage = "SHIP"

CompletedInOrder(s) ==
  \A i, j \in 1 .. Len(s.completedOrders) :
    i < j => s.orders[s.completedOrders[i]].completeTick
               <= s.orders[s.completedOrders[j]].completeTick

CompletedAppendOnly ==
  /\ [] CompletedInOrder(sim)
  /\ [][CompletedAppendStep(sim, sim')]_vars

\* completions of several ticks, two of them in the same tick
CompletedAppendOnlyWitness ==
  /\ Len(sim.completedOrders) > 3
  /\ \E i \in 1 .. (Len(sim.completedOrders) - 1) :
       sim.orders[sim.completedOrders[i]].completeTick
         = sim.orders[sim.completedOrders[i + 1]].completeTick
  /\ sim.orders[sim.completedOrders[1]].completeTick
       < sim.orders[sim.completedOrders[Len(sim.completedOrders)]].completeTick

\* C16 (arrival sampling): with lambda = ordersPerDay / 1440, a step makes
\* one draw and creates floor(lambda) orders, plus one exactly when the draw
\* is below lambda - floor(lambda) (never when lambda is an integer).  Each
\* new order is created in stage NEW with createdTick the tick of the step
\* and the next unused id, larger than every earlier id, at the tail of the
\* waiting queue.
\* floor(rng() * 1440) for the draw u / 2^32
DrawSlot(u) == ((u[1] * MinutesPerDay) + ((u[2] * MinutesPerDay) \div Limb)) \div Limb

ArrivalStep(before, after, tBefore, tAfter) ==
  LET n       == Len(after.orders) - Len(before.orders)
      whole   == before.ordersPerDay \div MinutesPerDay
      part    == before.ordersPerDay % MinutesPerDay
      extra   == DrawSlot(RngOutput(tAfter)) < part
      created == [j \in 1 .. n |-> Len(before.orders) + j]
      pushed  == pushArrivals(before, n)
  IN  /\ tAfter = RngAdvance(tBefore)
      /\ n = whole + (IF extra THEN 1 ELSE 0)
      /\ part = 0 => n = whole
      /\ after.nextOrderNum = before.nextOrderNum + n
      /\ \A o \in OrderRefs(before) :
           /\ after.orders[o].id = before.orders[o].id
           /\ after.orders[o].createdTick = before.orders[o].createdTick
      /\ \A j \in 1 .. n :
           /\ after.orders[created[j]].id = before.nextOrderNum + j - 1
           /\ \A o \in 1 .. (created[j] - 1) :
                after.orders[o].id < after.orders[created[j]].id
           /\ after.orders[created[j]].createdTick = before.tick
           /\ pushed.orders[created[j]] = Order(before.nextOrderNum + j - 1, before.tick)
      /\ pushed.newOrders = before.newOrders \o created

ArrivalSampling ==
  [][ArrivalStep(sim, sim', closures[sim.rng], closures'[sim.rng])]_vars

CreatedAt(s, t) == { o \in OrderRefs(s) : s.orders[o].createdTick = t }

\* with lambda = 2.5 a step created 3 orders and another step 2; some of
\* them still wait at the tail of the queue
ArrivalSamplingWitness ==
  /\ sim.ordersPerDay = 3600
  /\ \E t1, t2 \in 0 .. (sim.tick - 1) :
       /\ Cardinality(CreatedAt(sim, t1)) = 3
       /\ Cardinality(CreatedAt(sim, t2)) = 2
  /\ Len(sim.newOrders) > 0

\* with a fractional lambda below 1 some steps created one order, some none
ArrivalFractionReached ==
  /\ sim.ordersPerDay = DefaultOrdersPerDay
  /\ \E t1, t2 \in 0 .. (sim.tick - 1) :
       /\ Cardinality(CreatedAt(sim, t1)) = 1
       /\ Cardinality(CreatedAt(sim, t2)) = 0

\* C17 (same-tick assignment): in a step, assignment runs after arrivals and
\* after stage advancement, so the employees idle before the step or freed by
\* it are matched in that step with the orders waiting before it or created
\* by it, as many as there are of both; hence at every tick boundary no
\* employee is idle while the waiting queue is non-empty.
WorkConserving(s) ==
  (\E e \in DOMAIN s.employees : idle(s.employees[e])) => s.newOrders = << >>

\* the employees whose order the step completed
Freed(before, after) ==
  { e \in Busy(before) :
      after.orders[before.employees[e].currentOrder].stage = "COMPLETE" }

SameTickStep(before, after) ==
  LET available == (DOMAIN before.employees \ Busy(before)) \cup Freed(before, after)
      waiting   == Len(before.newOrders) + (Len(after.orders) - Len(before.orders))
      matched   == { e \in DOMAIN after.employees :
                       /\ ~ idle(after.employees[e])
                       /\ after.orders[after.employees[e].currentOrder].stage = "PICK"
                       /\ e \in available }
  IN  /\ Cardinality(matched) = Min(Cardinality(available), waiting)
      /\ Len(after.newOrders) = waiting - Cardinality(matched)
      /\ \A e \in matched :
           after.employees[e].timeRemaining = after.durations.PICK

SameTickAssignment ==
  /\ [] WorkConserving(sim)
  /\ [][SameTickStep(sim, sim')]_vars

\* the only employee finished an order in the last step and, in that same
\* step, took an order that the step created
SameTickAssignmentWitness ==
  /\ Len(sim.employees) = 1
  /\ Len(sim.completedOrders) > 0
  /\ sim.orders[sim.completedOrders[Len(sim.completedOrders)]].completeTick = sim.tick - 1
  /\ ~ idle(sim.employees[1])
  /\ sim.orders[sim.employees[1].currentOrder].createdTick = sim.tick - 1
  /\ sim.orders[sim.employees[1].currentOrder].stage = "PICK"

\* C18 (countdown): the PICK, STAGE and SHIP durations are at least 1 tick;
\* at every tick boundary an employee holding an order has
\* 1 <= timeRemaining <= the duration of the order's current stage; a step
\* sets timeRemaining to exactly the duration of the new stage at assignment
\* (PICK) and at each transition (STAGE, SHIP), which happens exactly when the
\* countdown was at 1, and otherwise decreases it by exactly 1.
CountdownState(s) ==
  /\ \A st \in {"PICK", "STAGE", "SHIP"} : s.durations[st] >= 1
  /\ \A e \in Busy(s) :
       LET st == s.orders[s.employees[e].currentOrder].stage
       IN  /\ st \in {"PICK", "STAGE", "SHIP"}
           /\ 1 <= s.employees[e].timeRemaining
           /\ s.employees[e].timeRemaining <= s.durations[st]

CountdownStep(before, after) ==
  \A e \in Busy(after) :
    LET o  == after.employees[e].currentOrder
        st == after.orders[o].stage
        tr == after.employees[e].timeRemaining
    IN  IF before.employees[e].currentOrder # o
        THEN st = "PICK" /\ tr = after.durations.PICK
        ELSE IF before.orders[o].stage # st
        THEN /\ before.employees[e].timeRemaining = 1
             /\ StageRank(st) = StageRank(before.orders[o].stage) + 1
             /\ tr = after.durations[st]
        ELSE /\ before.employees[e].timeRemaining > 1
             /\ tr = before.employees[e].timeRemaining - 1

Countdown ==
  /\ [] CountdownState(sim)
  /\ [][CountdownStep(sim, sim')]_vars

\* minutesPerOrder = 10 (durations 5, 3, 2): an employee is one tick into the
\* STAGE stage of its order, another order is just starting SHIP
CountdownWitness ==
  /\ sim.durations = [PICK |-> 5, STAGE |-> 3, SHIP |-> 2]
  /\ Len(sim.employees) = 2
  /\ ~ idle(sim.employees[1]) /\ ~ idle(sim.employees[2])
  /\ sim.orders[sim.employees[2].currentOrder].stage = "STAGE"
  /\ sim.employees[2].timeRemaining = 2
  /\ sim.orders[sim.employees[1].currentOrder].stage = "SHIP"
  /\ sim.employees[1].timeRemaining = 2

\* minutesPerOrder = 0: the rounded STAGE and SHIP shares are 0 and are
\* raised to 1
CountdownClampReached ==
  /\ config.minutesPerOrder = 0
  /\ sim.durations = [PICK |-> 1, STAGE |-> 1, SHIP |-> 1]
  /\ \E e \in Busy(sim) : sim.orders[sim.employees[e].currentOrder].stage = "SHIP"

\* C19 (no overtaking): in every reachable state the order ids along
\* completedOrders are strictly increasing: orders complete in the order of
\* their creation, also when several complete in one tick on different
\* employees.
NoOvertaking ==
  \A i, j \in DOMAIN sim.completedOrders :
    i < j => sim.orders[sim.completedOrders[i]].id < sim.orders[sim.completedOrders[j]].id

\* two orders completed in the same tick, on two employees
NoOvertakingWitness ==
  /\ Len(sim.employees) = 2
  /\ \E i \in DOMAIN sim.completedOrders :
       /\ i + 1 \in DOMAIN sim.completedOrders
       /\ sim.orders[sim.completedOrders[i]].completeTick
            = sim.orders[sim.completedOrders[i + 1]].completeTick
  /\ \E i, j \in DOMAIN sim.completedOrders :
       sim.orders[sim.completedOrders[i]].completeTick
         < sim.orders[sim.completedOrders[j]].completeTick

\* C20 (eventual completion): with at least one employee and step() called
\* forever, every order that is created is eventually assigned to an employee
\* and eventually reaches COMPLETE and appears in completedOrders, whatever
\* the arrival pattern.  The work standing before an order (its own included)
\* shrinks with every step until the order is complete, so the order completes
\* within that many steps; the eventuality is checked for the orders whose
\* largest possible backlog fits in the ticks left before MaxTick.
\* the ticks employee e still needs for the order it holds
Remaining(s, e) ==
  LET st == s.orders[s.employees[e].currentOrder].stage
  IN  s.employees[e].timeRemaining
        + (IF st = "PICK" THEN s.durations.STAGE + s.durations.SHIP
           ELSE IF st = "STAGE" THEN s.durations.SHIP
           ELSE 0)

RECURSIVE HeldWork(_, _, _)
HeldWork(s, o, e) ==
  IF e > Len(s.employees) THEN 0
  ELSE (IF e \in Busy(s) /\ s.employees[e].currentOrder <= o
        THEN Remaining(s, e) ELSE 0) + HeldWork(s, o, e + 1)

\* the work of order o and of the incomplete orders created before it
Backlog(s, o) ==
  HeldWork(s, o, 1)
    + ServiceTime(s) * Cardinality({ i \in DOMAIN s.newOrders : s.newOrders[i] <= o })

BacklogShrinks ==
  Len(sim.employees) >= 1 =>
    \A o \in OrderRefs(sim) :
      sim.orders[o].stage # "COMPLETE" =>
        /\ Backlog(sim, o) >= 1
        /\ Backlog(sim', o) < Backlog(sim, o)
        /\ sim.orders[o].stage = "NEW" => Holders(sim, o) = {}

\* order o, created with at most o - 1 incomplete orders before it, has a
\* backlog of at most o service times at the tick boundary after its creation
Due(o) ==
  /\ Len(sim.employees) >= 1
  /\ sim.orders[o].createdTick + 1 + ServiceTime(sim) * o <= MaxTick

Assigned(o) ==
  /\ o \in OrderRefs(sim)
  /\ assignedAt[1][o] # Null
  /\ sim.orders[o].stage # "NEW"

Completed(o) ==
  /\ o \in OrderRefs(sim)
  /\ sim.orders[o].stage = "COMPLETE"
  /\ Positions(sim.completedOrders, o) # {}

AllDueCompleted ==
  \A o \in OrderRefs(sim) : Due(o) => Assigned(o) /\ Completed(o)

EventualCompletion ==
  /\ [][BacklogShrinks]_vars
  /\ <>[]AllDueCompleted

\* an order that had to wait in the queue for a busy employee is complete
EventualCompletionWitness ==
  \E o \in OrderRefs(sim) :
    /\ Due(o)
    /\ Completed(o)
    /\ assignedAt[1][o] > sim.orders[o].createdTick

\* taken alone, the eventuality of C20
EventuallyCompleted == <>[]AllDueCompleted

\* C21 (driving loop): for any interleaving of Start clicks, Reset clicks and
\* timer callbacks, at most one interval timer is active; the tick of the
\* simulation never exceeds targetTicks = days * 1440; each callback advances
\* the simulation by min(minutesPerSecond, targetTicks - tick) ticks; when the
\* timer keeps firing the tick eventually equals targetTicks and the timer is
\* then cleared; after Reset there is no simulation and no active timer.
OneTimer ==
  /\ Cardinality(timers) <= 1
  /\ timerId = Null => timers = {}
  /\ timerId # Null => \E t \in timers : t.id = timerId
  /\ sims = << >> => timers = {}

TickWithinTarget ==
  sims # << >> =>
    /\ sims[1].tick >= 0
    /\ sims[1].tick <= targetTicks
    /\ \E days \in 1 .. 2 : targetTicks = days * MinutesPerDay

\* a click on Start: the target is days * 1440 with days at least 1, the
\* simulation is new and the one timer advances minutesPerSecond per firing
StartStep ==
  \A f \in Fields :
    (lastHandle' # lastHandle /\ startSimulation(f)) =>
      LET days == IF f.days.nan \/ f.days.value < 1 THEN 1 ELSE f.days.value
          rate == IF f.minutesPerSecond.nan \/ f.minutesPerSecond.value = 0 THEN 60
                  ELSE IF f.minutesPerSecond.value < 1 THEN 1
                  ELSE f.minutesPerSecond.value
      IN  /\ targetTicks' = days * MinutesPerDay
          /\ sims'[1].tick = 0
          /\ timers' = { [ id |-> timerId', stepPerSecond |-> rate ] }
          /\ \A t \in timers : t.id # timerId'

\* a timer callback: no Start (no new handle) and a simulation before and after
CallbackStep ==
  (lastHandle' = lastHandle /\ sims # << >> /\ sims' # << >>) =>
    \E t \in timers :
      LET advance == Min(t.stepPerSecond, targetTicks - sims[1].tick)
      IN  /\ timers = { t }
          /\ sims'[1].tick = sims[1].tick + advance
          /\ advance > 0 => timers' = timers /\ timerId' = timerId
          /\ advance = 0 => timers' = {} /\ timerId' = Null /\ sims' = sims
          /\ targetTicks' = targetTicks

ResetStep ==
  resetSimulation => (sims' = << >> /\ timers' = {} /\ timerId' = Null)

\* nothing is left to do: no timer, and a simulation, if any, is at its target
Quiescent ==
  /\ timers = {}
  /\ timerId = Null
  /\ sims # << >> => sims[1].tick = targetTicks

DrivingLoop ==
  /\ [] OneTimer
  /\ [] TickWithinTarget
  /\ [][StartStep /\ CallbackStep /\ ResetStep]_vars
  /\ [](timers # {} => <>Quiescent)
  /\ <>[]Quiescent

\* a two-day run, started while another run was under way, reached its
\* target and its timer was cleared
DrivingLoopWitness ==
  /\ lastHandle >= 2
  /\ sims # << >>
  /\ targetTicks = 2 * MinutesPerDay
  /\ sims[1].tick = targetTicks
  /\ timers = {}
  /\ timerId = Null

\* the last advance of a run was shorter than minutesPerSecond (1440 = 205 * 7
\* + 5) and the timer is still to be cleared by its next firing
ShortAdvanceReached ==
  /\ sims # << >>
  /\ targetTicks = MinutesPerDay
  /\ sims[1].tick = targetTicks
  /\ \E t \in timers : t.stepPerSecond = 7

\* a Reset click stopped a run under way
ResetReached ==
  /\ sims = << >>
  /\ lastHandle >= 1
  /\ timers = {}

====
